---- MODULE Spec2Model ----
(***************************************************************************)
(* The ACP bridge of .kiro/skills/kiro-acp/client.py: the TerminalManager  *)
(* (terminal/* reverse RPC), the reader thread (_read_loop, _dispatch),    *)
(* and the session facade (start, prompt, prompt_stream, stop).            *)
(***************************************************************************)
EXTENDS Integers, Sequences, FiniteSets, TLC

\* ------------------------------------------------------------- bounds
MaxOut == 3         \* bytes all terminal commands write in total
MaxLines == 3       \* lines the reader thread reads from the agent
MaxTermLines == 2   \* of them, under SpecTerm
MaxCap == 1         \* largest maxOutputBytes of a terminal/create
MaxTerminals == 1   \* terminals created
MaxOpts == 3        \* options of one session/request_permission
MaxCalls == 2       \* prompt()/prompt_stream() calls
MaxCallLines == 2   \* lines read under SpecCalls
MaxStartLines == 3  \* lines read under SpecStart
MaxOpsLines == 2    \* lines read under SpecOps
MaxOpsOut == 1      \* bytes the commands write under SpecOps
MaxShapeLines == 2  \* lines read under SpecShape
MaxChats == 2       \* /v1/chat/completions requests of the conversation
MaxNoteLines == 2   \* lines read under SpecNotes
MaxSent == 3        \* lines the agent writes under SpecPipe
MaxStrayLines == 2  \* lines read by the time an unasked update is read
MaxEvents == 4      \* webhook events of the agent session

\* ids start() has used: initialize, session/new, the preamble
StartIds == 3

\* ------------------------------------------------------ python values
None == <<>>
Some(v) == <<v>>
Falsy(v) == v = None \/ v = Some("")

MinOf(S) == CHOOSE x \in S : \A y \in S : x <= y
MaxOf(S) == CHOOSE x \in S : \A y \in S : x >= y
Last(s) == s[Len(s)]

\* bytes: "a" is an ASCII byte, "x" the byte 0xFF (never valid in UTF-8)
Bytes == {"a", "x"}

\* bytes.decode("utf-8", errors="replace")
Decode(bs) == [i \in 1..Len(bs) |-> IF bs[i] = "x" THEN "?" ELSE bs[i]]

\* the slice s[:n], n >= 0
Take(s, n) == SubSeq(s, 1, IF n < Len(s) THEN n ELSE Len(s))

VARIABLES
  \* TerminalManager
  termObj,     \* tid -> the `terminal` dict of create(): output, max_bytes, truncated
  registry,    \* keys of self._terminals
  termLock,    \* self._lock: 0 free, tid when that terminal's reader holds it
  cmd,         \* tid -> the command's OS process: alive, code
  pipe,        \* tid -> bytes the command wrote that reader() has not read
  rd,          \* tid -> the reader() thread: pc, chunk
  fed,         \* tid -> every byte reader() has appended so far (history)
  written,     \* bytes written by all commands (bounds the run)
  \* the agent subprocess and the _read_loop thread
  procAlive,   \* self.process.poll() is None
  readerPc,    \* "read", "create_reg", "wait_exit", "bcast", "done"
  readerExit,  \* how the loop ended: "", "poll", "eof", or the exception caught
  cur,         \* the inbound request the reader is serving
  nread,       \* lines read so far
  lastReply,   \* the response _respond wrote last: id, result (req: the request answered)
  replyCount,  \* request id -> responses written under that id
  bcLen,       \* size of self._pending when the shutdown loop began iterating
  bcDone,      \* ids the shutdown loop has visited
  agentOpts,   \* the options the agent offers in session/request_permission
  agentIn,     \* requests the agent has received and not answered, oldest first
  agentEnded,  \* the agent has sent the turn-end notification of its current turn
  \* session facade
  process,     \* self.process: "none" or "set"
  msgId,       \* self._msg_id
  pending,     \* self._pending: id -> queue
  notifications, \* self._notifications
  pc,          \* the calling thread: "idle", "reg", "wait", "pop", "yield"
  api,         \* the call it is in: "prompt" or "stream"
  callId,      \* msg_id of that call
  chunks,      \* prompt(): the text accumulated so far
  ret,         \* how the last call ended
  got,         \* everything put on the queue of the call in progress (history)
  taken,       \* how many of them the call has taken off its queue (history)
  preamble,    \* self.preamble is a non-empty string
  wire,        \* the requests written to the agent's stdin, in order (history)
  \* kiro-proxy, one conversation id
  active,      \* _active_procs.get(conv_id): None or Some(process)
  kiro,        \* the kiro-cli processes spawned, in order
  chats,       \* the /v1/chat/completions requests, in order of arrival
  abortPc,     \* the /v1/chat/abort request: "idle", "wait", "done"
  \* the agent's stdout
  sent,        \* the lines the agent has written, in order (SpecPipe)
  \* the Linear webhook receiver, one agent session id
  sessions,    \* _sessions.get(sid): None or Some(run)
  runs,        \* the run threads started for the session: alive or not
  events       \* the AgentSessionEvent actions received, in order (history)

termVars == <<termObj, registry, termLock, cmd, pipe, rd, fed, written>>
readerVars == <<procAlive, readerPc, readerExit, cur, nread, lastReply, replyCount, bcLen, bcDone,
                agentOpts, agentIn, agentEnded>>
callVars == <<process, msgId, pending, notifications, pc, api, callId, chunks, ret, got,
              taken, preamble, wire>>
proxyVars == <<active, kiro, chats, abortPc>>
pipeVars == <<sent>>
hookVars == <<sessions, runs, events>>
vars == <<termVars, readerVars, callVars, proxyVars, pipeVars, hookVars>>

NoLine == [k |-> "none"]

\* the receiver at start-up: _sessions = {}
InitHook == sessions = None /\ runs = <<>> /\ events = <<>>

\* the agent has written nothing yet
InitPipe == sent = <<>>

\* kiro-proxy at start-up: _active_procs = {}
InitProxy == active = None /\ kiro = <<>> /\ chats = <<>> /\ abortPc = "idle"

\* ----------------------------------------------------- TerminalManager

DEFAULT_MAX_BYTES == 1000000

\* terminal["max_bytes"]; maxOutputBytes 0 stands for None, absent or 0
MaxBytesOf(mob) == IF mob = 0 THEN DEFAULT_MAX_BYTES ELSE mob

NewTerminal(mob) ==
  [output |-> <<>>, max_bytes |-> MaxBytesOf(mob), truncated |-> FALSE]

\* uuid4(): an id no terminal has had
FreshTid == Cardinality(DOMAIN termObj) + 1

\* the command writes one byte to its stdout/stderr
CmdWrite(t, b) ==
  /\ t \in DOMAIN cmd /\ cmd[t].alive
  /\ written < MaxOut
  /\ pipe' = [pipe EXCEPT ![t] = Append(@, b)]
  /\ written' = written + 1
  /\ UNCHANGED <<termObj, registry, termLock, cmd, rd, fed, readerVars, callVars, proxyVars, pipeVars, hookVars>>

\* the command exits on its own
CmdExit(t, c) ==
  /\ t \in DOMAIN cmd /\ cmd[t].alive
  /\ cmd' = [cmd EXCEPT ![t] = [alive |-> FALSE, code |-> c]]
  /\ UNCHANGED <<termObj, registry, termLock, pipe, rd, fed, written, readerVars, callVars, proxyVars, pipeVars, hookVars>>

\* reader(): chunk = proc.stdout.read(4096); any non-empty prefix of what is
\* in the pipe (a buffered read returns full blocks but for the last one)
RdRead(t, n) ==
  /\ t \in DOMAIN rd /\ rd[t].pc = "read"
  /\ n \in 1..Len(pipe[t])
  /\ rd' = [rd EXCEPT ![t] = [pc |-> "lock", chunk |-> SubSeq(pipe[t], 1, n)]]
  /\ pipe' = [pipe EXCEPT ![t] = SubSeq(@, n + 1, Len(@))]
  /\ UNCHANGED <<termObj, registry, termLock, cmd, fed, written, readerVars, callVars, proxyVars, pipeVars, hookVars>>

\* reader(): `if not chunk: break` at end of file
RdEof(t) ==
  /\ t \in DOMAIN rd /\ rd[t].pc = "read"
  /\ pipe[t] = <<>> /\ ~cmd[t].alive
  /\ rd' = [rd EXCEPT ![t] = [pc |-> "done", chunk |-> <<>>]]
  /\ UNCHANGED <<termObj, registry, termLock, cmd, pipe, fed, written, readerVars, callVars, proxyVars, pipeVars, hookVars>>

\* reader(): with self._lock: terminal["output"] += chunk
RdAppend(t) ==
  /\ t \in DOMAIN rd /\ rd[t].pc = "lock"
  /\ termLock = 0
  /\ termLock' = t
  /\ termObj' = [termObj EXCEPT ![t].output = @ \o rd[t].chunk]
  /\ fed' = [fed EXCEPT ![t] = @ \o rd[t].chunk]
  /\ rd' = [rd EXCEPT ![t] = [pc |-> "check", chunk |-> <<>>]]
  /\ UNCHANGED <<registry, cmd, pipe, written, readerVars, callVars, proxyVars, pipeVars, hookVars>>

TruncateLast(out, max) == SubSeq(out, Len(out) - max + 1, Len(out))
\* terminal["output"][:terminal["max_bytes"]]
Truncate(out, max) == Take(out, max)

\* reader(): the cap check, still under the lock, then the lock is released
RdCheck(t) ==
  /\ t \in DOMAIN rd /\ rd[t].pc = "check"
  /\ termObj' = IF Len(termObj[t].output) > termObj[t].max_bytes
                THEN [termObj EXCEPT ![t].output = Truncate(@, termObj[t].max_bytes),
                                     ![t].truncated = TRUE]
                ELSE termObj
  /\ termLock' = 0
  /\ rd' = [rd EXCEPT ![t].pc = "read"]
  /\ UNCHANGED <<registry, cmd, pipe, fed, written, readerVars, callVars, proxyVars, pipeVars, hookVars>>

LockIgnored == TRUE
\* `with self._lock:` on the thread that serves the inbound requests
LockFree == termLock = 0

\* proc.poll()
Poll(t) == IF cmd[t].alive THEN None ELSE Some(cmd[t].code)

NotFound == [output |-> <<>>, exitCode |-> Some(-1), truncated |-> FALSE]

get_output(tid) ==
  IF tid \notin registry THEN NotFound
  ELSE [output |-> Decode(termObj[tid].output),
        exitCode |-> Poll(tid),
        truncated |-> termObj[tid].truncated]

\* t["process"].kill()
Killed(t) == [cmd EXCEPT ![t] = [alive |-> FALSE, code |-> -9]]

killNever(tid) == cmd

\* kill(): only a registered terminal whose process still runs is signalled
kill(tid) == IF tid \in registry /\ cmd[tid].alive THEN Killed(tid) ELSE cmd

\* ------------------------------------------------ permission approval

Kinds == {"allow_always", "allow_once", "reject_once"}
OptIds == {None, Some(""), Some("a"), Some("b")}
Option == [kind : Kinds, optionId : OptIds]

OfKind(options, kind) == {i \in DOMAIN options : options[i].kind = kind}

ChooseOptionOnceFirst(options) ==
  LET once == OfKind(options, "allow_once")
      always == OfKind(options, "allow_always")
      a == IF once = {} THEN None ELSE options[MinOf(once)].optionId
      b == IF Falsy(a) /\ always # {} THEN options[MinOf(always)].optionId ELSE a
  IN IF Falsy(b) /\ options # <<>> THEN options[1].optionId ELSE b

\* _dispatch, session/request_permission: the optionId of the reply
ChooseOption(options) ==
  LET always == OfKind(options, "allow_always")
      once == OfKind(options, "allow_once")
      a == IF always = {} THEN None ELSE options[MinOf(always)].optionId
      b == IF Falsy(a) /\ once # {} THEN options[MinOf(once)].optionId ELSE a
  IN IF Falsy(b) /\ options # <<>> THEN options[1].optionId ELSE b

\* ------------------------------------------- _read_loop and _dispatch

EmptyDict == [dict |-> "{}"]

Req(method, arg) == [k |-> "req", method |-> method, arg |-> arg]

\* the loop is blocked in read(1), having passed its `while` test
ReadPre == readerPc = "read" /\ nread < MaxLines

Book == nread' = nread + 1

\* the id the agent gives its next request
ReqId == nread + 1

\* the loop ends and the shutdown loop creates its iterator
EndLoop(why) ==
  /\ readerPc' = "bcast"
  /\ readerExit' = why
  /\ bcLen' = Cardinality(DOMAIN pending)
  /\ bcDone' = {}

\* back to `while self.process and self.process.poll() is None`
Continue ==
  IF process = "set" /\ procAlive
  THEN readerPc' = "read" /\ UNCHANGED <<readerExit, bcLen, bcDone>>
  ELSE EndLoop("poll")

\* replyCount gets an entry, with no reply written yet, for a request that
\* has been read
Asked(id) == IF id \in DOMAIN replyCount THEN replyCount ELSE replyCount @@ (id :> 0)

\* the request is read and the handler has not replied yet
Unanswered(id) == replyCount' = Asked(id) /\ UNCHANGED lastReply

\* _respond: BrokenPipeError/OSError of a dead agent is swallowed
Respond(id, result, req) ==
  IF procAlive
  THEN /\ lastReply' = [k |-> "reply", id |-> id, result |-> result, req |-> req]
       /\ replyCount' = [Asked(id) EXCEPT ![id] = @ + 1]
  ELSE Unanswered(id)

NoReply == UNCHANGED <<lastReply, replyCount>>

\* json.loads raises JSONDecodeError: `continue`
InBadJson ==
  /\ ReadPre
  /\ Book
  /\ Continue
  /\ NoReply
  /\ UNCHANGED <<termVars, callVars, proxyVars, pipeVars, hookVars, procAlive, cur, agentOpts, agentIn, agentEnded>>

\* json.loads of bytes that are not UTF-8 raises UnicodeDecodeError, which is
\* no JSONDecodeError: the outer `except Exception: break` takes it
InBadUtf8 ==
  /\ ReadPre
  /\ Book
  /\ EndLoop("UnicodeDecodeError")
  /\ NoReply
  /\ UNCHANGED <<termVars, callVars, proxyVars, pipeVars, hookVars, procAlive, cur, agentOpts, agentIn, agentEnded>>

\* read(1) returns b"" once the agent has exited
ReadEof ==
  /\ readerPc = "read"
  /\ ~procAlive
  /\ EndLoop("eof")
  /\ NoReply
  /\ UNCHANGED <<termVars, callVars, proxyVars, pipeVars, hookVars, procAlive, cur, nread, agentOpts, agentIn, agentEnded>>

\* terminal/create up to the start of the reader thread; Popen may raise
\* (a cwd that does not exist), and the exception ends the loop
InCreate(mob, spawn) ==
  LET line == Req("terminal/create", [mob |-> mob, spawn |-> spawn])
      tid == FreshTid
  IN
  /\ ReadPre
  /\ Cardinality(DOMAIN termObj) < MaxTerminals
  /\ Book
  /\ Unanswered(ReqId)
  /\ UNCHANGED <<registry, termLock, written, procAlive, agentOpts, agentIn, agentEnded, callVars, proxyVars, pipeVars, hookVars>>
  /\ IF spawn
     THEN /\ termObj' = termObj @@ (tid :> NewTerminal(mob))
          /\ cmd' = cmd @@ (tid :> [alive |-> TRUE, code |-> 0])
          /\ pipe' = pipe @@ (tid :> <<>>)
          /\ rd' = rd @@ (tid :> [pc |-> "read", chunk |-> <<>>])
          /\ fed' = fed @@ (tid :> <<>>)
          /\ readerPc' = "create_reg"
          /\ cur' = [id |-> ReqId, tid |-> tid, req |-> line]
          /\ UNCHANGED <<readerExit, bcLen, bcDone>>
     ELSE /\ EndLoop("Popen")
          /\ UNCHANGED <<termObj, cmd, pipe, rd, fed, cur>>

\* create(): with self._lock: self._terminals[terminal_id] = terminal; reply
InCreateRegister ==
  /\ readerPc = "create_reg"
  /\ LockFree
  /\ registry' = registry \cup {cur.tid}
  /\ Respond(cur.id, [terminalId |-> cur.tid], cur.req)
  /\ Continue
  /\ UNCHANGED <<termObj, termLock, cmd, pipe, rd, fed, written, callVars, proxyVars, pipeVars, hookVars,
                 procAlive, cur, nread, agentOpts, agentIn, agentEnded>>

\* terminal/output
InOutput(tid) ==
  LET line == Req("terminal/output", tid) IN
  /\ ReadPre
  /\ LockFree
  /\ Book
  /\ Respond(ReqId, get_output(tid), line)
  /\ Continue
  /\ UNCHANGED <<termVars, callVars, proxyVars, pipeVars, hookVars, procAlive, cur, agentOpts, agentIn, agentEnded>>

\* terminal/wait_for_exit: the lookup; an unknown id is answered at once
InWait(tid) ==
  LET line == Req("terminal/wait_for_exit", tid) IN
  /\ ReadPre
  /\ LockFree
  /\ Book
  /\ UNCHANGED <<termVars, callVars, proxyVars, pipeVars, hookVars, procAlive, agentOpts, agentIn, agentEnded>>
  /\ IF tid \in registry
     THEN /\ readerPc' = "wait_exit"
          /\ cur' = [id |-> ReqId, tid |-> tid, req |-> line]
          /\ Unanswered(ReqId)
          /\ UNCHANGED <<readerExit, bcLen, bcDone>>
     ELSE /\ Respond(ReqId, [exitCode |-> -1], line)
          /\ Continue
          /\ UNCHANGED cur

\* wait_for_exit: process.wait() returns the exit code (the join of the
\* reader thread ends with the thread or after its 5 s)
WaitExited ==
  /\ readerPc = "wait_exit"
  /\ ~cmd[cur.tid].alive
  /\ Respond(cur.id, [exitCode |-> cmd[cur.tid].code], cur.req)
  /\ Continue
  /\ UNCHANGED <<termVars, callVars, proxyVars, pipeVars, hookVars, procAlive, cur, nread, agentOpts, agentIn, agentEnded>>

WaitForever == FALSE /\ UNCHANGED vars

\* wait_for_exit: TimeoutExpired, the process is killed, exit code -1
WaitTimeout ==
  /\ readerPc = "wait_exit"
  /\ cmd[cur.tid].alive
  /\ cmd' = Killed(cur.tid)
  /\ Respond(cur.id, [exitCode |-> -1], cur.req)
  /\ Continue
  /\ UNCHANGED <<termObj, registry, termLock, pipe, rd, fed, written, callVars, proxyVars, pipeVars, hookVars,
                 procAlive, cur, nread, agentOpts, agentIn, agentEnded>>

InKillDrops(tid) ==
  LET line == Req("terminal/kill", tid) IN
  /\ ReadPre
  /\ LockFree
  /\ Book
  /\ cmd' = kill(tid)
  /\ registry' = registry \ {tid}
  /\ Respond(ReqId, EmptyDict, line)
  /\ Continue
  /\ UNCHANGED <<termObj, termLock, pipe, rd, fed, written, callVars, proxyVars, pipeVars, hookVars,
                 procAlive, cur, agentOpts, agentIn, agentEnded>>

\* terminal/kill
InKill(tid) ==
  LET line == Req("terminal/kill", tid) IN
  /\ ReadPre
  /\ LockFree
  /\ Book
  /\ cmd' = kill(tid)
  /\ Respond(ReqId, EmptyDict, line)
  /\ Continue
  /\ UNCHANGED <<termObj, registry, termLock, pipe, rd, fed, written, callVars, proxyVars, pipeVars, hookVars,
                 procAlive, cur, agentOpts, agentIn, agentEnded>>

\* terminal/release: kill(), then the record is popped
InRelease(tid) ==
  LET line == Req("terminal/release", tid) IN
  /\ ReadPre
  /\ LockFree
  /\ Book
  /\ cmd' = kill(tid)
  /\ registry' = registry \ {tid}
  /\ Respond(ReqId, EmptyDict, line)
  /\ Continue
  /\ UNCHANGED <<termObj, termLock, pipe, rd, fed, written, callVars, proxyVars, pipeVars, hookVars,
                 procAlive, cur, agentOpts, agentIn, agentEnded>>

\* session/request_permission
InPermission(options) ==
  LET line == Req("session/request_permission", options) IN
  /\ ReadPre
  /\ Book
  /\ Respond(ReqId, [outcome |-> "selected",
                                  optionId |-> ChooseOption(options)], line)
  /\ Continue
  /\ UNCHANGED <<termVars, callVars, proxyVars, pipeVars, hookVars, procAlive, cur, agentOpts, agentIn, agentEnded>>

\* any other method: an empty result
InUnknown ==
  LET line == Req("fs/read_text_file", 0) IN
  /\ ReadPre
  /\ Book
  /\ Respond(ReqId, EmptyDict, line)
  /\ Continue
  /\ UNCHANGED <<termVars, callVars, proxyVars, pipeVars, hookVars, procAlive, cur, agentOpts, agentIn, agentEnded>>

\* the agent subprocess exits
AgentExit ==
  /\ procAlive
  /\ procAlive' = FALSE
  /\ UNCHANGED <<termVars, callVars, proxyVars, pipeVars, hookVars, readerPc, readerExit, cur, nread,
                 lastReply, replyCount, bcLen, bcDone, agentOpts, agentIn, agentEnded>>

\* ------------------------------------------------- session updates

\* the `content` of an update: a str, a dict {type, text}, a list of such
\* dicts, or absent
ContentStr(x) == [py |-> "str", type |-> "", text |-> x, parts |-> <<>>]
ContentDict(t, x) == [py |-> "dict", type |-> t, text |-> x, parts |-> <<>>]
ContentList(ps) == [py |-> "list", type |-> "", text |-> "", parts |-> ps]
ContentAbsent == [py |-> "absent", type |-> "", text |-> "", parts |-> <<>>]

\* an update dict: its sessionUpdate, type and content keys
Upd(su, ty, content) == [sessionUpdate |-> su, type |-> ty, content |-> content]

ChunkNew(x) == Upd(Some("agent_message_chunk"), None, ContentDict("text", x))
ChunkLegacy(x) == Upd(None, Some("AgentMessageChunk"), ContentStr(x))
ChunkImage == Upd(Some("agent_message_chunk"), None, ContentDict("image", ""))
ChunkList ==
  Upd(Some("agent_message_chunk"), None,
      ContentList(<<[type |-> "text", text |-> "h"], [type |-> "image", text |-> ""],
                    [type |-> "text", text |-> "i"]>>))
ToolCall == Upd(Some("tool_call"), None, ContentAbsent)
TurnEndNew == Upd(Some("turn_end"), None, ContentAbsent)
TurnEndLegacy == Upd(None, Some("TurnEnd"), ContentAbsent)

\* what the agent may send in a turn, each with the text it stands for
AgentUpdates ==
  {[upd |-> ChunkNew("h"), said |-> "h"], [upd |-> ChunkLegacy("i"), said |-> "i"],
   [upd |-> ChunkImage, said |-> ""], [upd |-> ChunkList, said |-> "hi"],
   [upd |-> ToolCall, said |-> ""], [upd |-> TurnEndNew, said |-> ""],
   [upd |-> TurnEndLegacy, said |-> ""]}

\* d.get(key, "") for a key holding a string
GetStr(v) == IF v = None THEN "" ELSE v[1]

\* update.get("sessionUpdate") or update.get("type", "")
UpdateType(u) == IF ~Falsy(u.sessionUpdate) THEN u.sessionUpdate[1] ELSE GetStr(u.type)

NormTypeSame(t) == t

\* the normalization table of _dispatch
NormType(t) ==
  CASE t = "agent_message_chunk" -> "AgentMessageChunk"
    [] t = "tool_call" -> "ToolCall"
    [] t = "tool_call_update" -> "ToolCallUpdate"
    [] t = "turn_end" -> "TurnEnd"
    [] OTHER -> t

\* normalized = dict(update); normalized["type"] = norm_type
Normalized(u) == [u EXCEPT !.type = Some(NormType(UpdateType(u)))]

RECURSIVE JoinText(_)
\* "".join(c.get("text", "") for c in content if c.get("type") == "text")
JoinText(ps) ==
  IF ps = <<>> THEN ""
  ELSE (IF Head(ps).type = "text" THEN Head(ps).text ELSE "") \o JoinText(Tail(ps))

ExtractTextDictOnly(m) ==
  LET utype == IF ~Falsy(m.type) THEN m.type[1] ELSE GetStr(m.sessionUpdate) IN
  IF utype \in {"AgentMessageChunk", "agent_message_chunk"}
       /\ m.content.py = "dict" /\ m.content.type = "text"
  THEN Some(m.content.text) ELSE None

\* _extract_text of a dict: Some(text) or None
ExtractText(m) ==
  LET utype == IF ~Falsy(m.type) THEN m.type[1] ELSE GetStr(m.sessionUpdate) IN
  IF utype \in {"AgentMessageChunk", "agent_message_chunk"}
  THEN CASE m.content.py \in {"str", "absent"} -> Some(m.content.text)
         [] m.content.py = "dict" /\ m.content.type = "text" -> Some(m.content.text)
         [] m.content.py = "list" -> Some(JoinText(m.content.parts))
         [] OTHER -> None
  ELSE None

\* ----------------------------------------------------- queue items
\* k: "None" (the close-sentinel), "update", "error" ({"error": ...}) or
\* "result" (a raw result dict); msg: the dict; turn and said are history:
\* the request the agent sent it for (0: not from the agent) and its text;
\* line is history too: the number of the line it was made from (0: none)

Item(k, turn, said, msg) ==
  [k |-> k, turn |-> turn, said |-> said, msg |-> msg, line |-> nread + 1]
NoDict == Upd(None, None, ContentAbsent)
Sentinel(turn) ==
  [k |-> "None", turn |-> turn, said |-> "", msg |-> NoDict,
   line |-> IF turn = 0 THEN 0 ELSE nread + 1]

PutFirst(id, item) ==
  /\ pending' = [pending EXCEPT ![id] = <<item>> \o @]
  /\ got' = IF pc # "idle" /\ id = callId THEN Append(got, item) ELSE got

\* q.put(item) on the queue registered under id
PutTo(id, item) ==
  /\ pending' = [pending EXCEPT ![id] = Append(@, item)]
  /\ got' = IF pc # "idle" /\ id = callId THEN Append(got, item) ELSE got

\* `for q in self._pending.values(): q.put(None)`, one step of the iterator:
\* RuntimeError when the dict changed size since the loop began
BcStep ==
  /\ readerPc = "bcast"
  /\ IF Cardinality(DOMAIN pending) # bcLen
     THEN /\ readerPc' = "done"
          /\ readerExit' = "RuntimeError"
          /\ UNCHANGED <<pending, got, bcDone>>
     ELSE IF DOMAIN pending \ bcDone = {}
     THEN /\ readerPc' = "done"
          /\ UNCHANGED <<pending, got, bcDone, readerExit>>
     ELSE LET id == MinOf(DOMAIN pending \ bcDone) IN
          /\ PutTo(id, Sentinel(0))
          /\ bcDone' = bcDone \cup {id}
          /\ UNCHANGED <<readerPc, readerExit>>
  /\ UNCHANGED <<termVars, procAlive, cur, nread, lastReply, replyCount, bcLen,
                 agentOpts, agentIn, agentEnded,
                 process, msgId, notifications, pc, api, callId, chunks, ret, taken,
                 preamble, wire, proxyVars, pipeVars, hookVars>>

\* ------------------------------------------- responses and updates
\* The agent answers its requests in the order it received them; the updates
\* it sends belong to the prompt it is working on, and after the turn-end
\* notification of a turn it sends only that turn's response.

Bodies == {"error", "stop", "plain", "typed"}

ResponseItemRaw(id, body) == Item("result", id, "", NoDict)

\* what the response branch of _dispatch puts on the queue: {"error": ...},
\* None for a result with a stopReason, else the result dict itself ("typed":
\* a result dict with "type": "result")
ResponseItem(id, body) ==
  CASE body = "error" -> Item("error", id, "", NoDict)
    [] body = "stop" -> Sentinel(id)
    [] body = "typed" -> Item("result", id, "", Upd(None, Some("result"), ContentAbsent))
    [] OTHER -> Item("result", id, "", NoDict)

\* a line with id and result/error: the response to the oldest open request
InResponse(body) ==
  /\ ReadPre
  /\ agentIn # <<>>
  /\ LET id == Head(agentIn).id IN
     IF id \in DOMAIN pending
     THEN PutTo(id, ResponseItem(id, body))
     ELSE UNCHANGED <<pending, got>>
  /\ agentIn' = Tail(agentIn)
  /\ agentEnded' = FALSE
  /\ Book
  /\ Continue
  /\ NoReply
  /\ UNCHANGED <<termVars, procAlive, cur, agentOpts,
                 process, msgId, notifications, pc, api, callId, chunks, ret, taken,
                 preamble, wire, proxyVars, pipeVars, hookVars>>

\* the method of the request written under id
MethodOf(id) == wire[CHOOSE i \in 1..Len(wire) : wire[i].id = id].method

\* a session/update notification the agent sent for `turn`, up to the choice
\* of the target queue: the latest id of the keys as they are when sorted()
\* copies them
UpdateLine(u, turn) ==
  /\ ReadPre
  /\ LET norm == NormType(UpdateType(u.upd)) IN
     IF DOMAIN pending = {}
     THEN /\ notifications' = Append(notifications, u.upd)
          /\ Continue
          /\ UNCHANGED cur
     ELSE /\ readerPc' = "route"
          /\ cur' = [mid |-> MaxOf(DOMAIN pending),
                     item |-> IF norm = "TurnEnd" THEN Sentinel(turn)
                              ELSE Item("update", turn, u.said, Normalized(u.upd))]
          /\ UNCHANGED <<notifications, readerExit, bcLen, bcDone>>
  /\ Book
  /\ NoReply
  /\ UNCHANGED <<termVars, procAlive, agentOpts, agentIn,
                 process, msgId, pending, pc, api, callId, chunks, ret, got, taken,
                 preamble, wire, proxyVars, pipeVars, hookVars>>

\* an update of the turn of the prompt the agent is working on
InUpdate(u) ==
  /\ agentIn # <<>> /\ ~agentEnded
  /\ MethodOf(Head(agentIn).id) = "session/prompt"
  /\ agentEnded' = (NormType(UpdateType(u.upd)) = "TurnEnd")
  /\ UpdateLine(u, Head(agentIn).id)

\* target_q = self._pending[mid] and the put: KeyError when the caller
\* popped mid since the keys were copied
Route ==
  /\ readerPc = "route"
  /\ IF cur.mid \in DOMAIN pending
     THEN PutTo(cur.mid, cur.item) /\ Continue
     ELSE EndLoop("KeyError") /\ UNCHANGED <<pending, got>>
  /\ NoReply
  /\ UNCHANGED <<termVars, procAlive, cur, nread, agentOpts, agentIn, agentEnded,
                 process, msgId, notifications, pc, api, callId, chunks, ret, taken,
                 preamble, wire, proxyVars, pipeVars, hookVars>>

\* ------------------------------------------------ prompt, prompt_stream

Apis == {"prompt", "stream"}

\* start() has returned
Started == [kind |-> "started", how |-> "return", text |-> ""]

\* the call raised the exception `how`
Raised(how) == [kind |-> "raise", how |-> how, text |-> ""]

\* no call has ended yet
NoRet == [kind |-> "none", how |-> "", text |-> ""]

NextIdStuck == StartIds + 1

\* _next_id: self._msg_id += 1; return self._msg_id
NextId == msgId + 1

\* msg_id = self._next_id(); self._send(...): the write raises when
\* self.process is None (AttributeError) or the agent is gone (BrokenPipeError)
Send(a) ==
  /\ pc = "idle"
  /\ msgId < StartIds + MaxCalls
  /\ msgId' = NextId
  /\ api' = a /\ callId' = NextId
  /\ chunks' = "" /\ got' = <<>> /\ taken' = 0
  /\ IF process = "set" /\ procAlive
     THEN /\ agentIn' = Append(agentIn, [id |-> NextId])
          /\ wire' = Append(wire, [id |-> NextId, method |-> "session/prompt"])
          /\ pc' = "reg"
          /\ ret' = NoRet
     ELSE /\ ret' = [kind |-> "raise", how |-> "send", text |-> ""]
          /\ UNCHANGED <<agentIn, pc, wire>>
  /\ UNCHANGED <<termVars, procAlive, readerPc, readerExit, cur, nread, lastReply,
                 replyCount, bcLen, bcDone, agentOpts, agentEnded,
                 process, pending, notifications, preamble, proxyVars, pipeVars, hookVars>>

\* result_queue = self._pending.setdefault(msg_id, queue.Queue())
Register ==
  /\ pc = "reg"
  /\ pending' = IF callId \in DOMAIN pending THEN pending ELSE pending @@ (callId :> <<>>)
  /\ pc' = "wait"
  /\ UNCHANGED <<termVars, readerVars, process, msgId, notifications, api, callId,
                 chunks, ret, got, taken,
                 preamble, wire, proxyVars, pipeVars, hookVars>>

\* result_queue.get() returns an item, and the loop body handles it
Get ==
  /\ pc = "wait"
  /\ pending[callId] # <<>>
  /\ LET m == Head(pending[callId]) IN
     /\ pending' = [pending EXCEPT ![callId] = Tail(@)]
     /\ taken' = taken + 1
     /\ IF m.k = "None"
        THEN pc' = "pop" /\ UNCHANGED chunks
        ELSE IF api = "preamble"
        THEN pc' = "wait" /\ UNCHANGED chunks
        ELSE IF api = "stream"
        THEN pc' = "yield" /\ UNCHANGED chunks
        ELSE IF m.msg.type = Some("result")
        THEN pc' = "pop" /\ UNCHANGED chunks
        ELSE /\ pc' = "wait"
             /\ chunks' = IF Falsy(ExtractText(m.msg)) THEN chunks
                          ELSE chunks \o ExtractText(m.msg)[1]
  /\ UNCHANGED <<termVars, readerVars, process, msgId, notifications, api, callId,
                 ret, got,
                 preamble, wire, proxyVars, pipeVars, hookVars>>

\* queue.Empty: nothing arrived within the timeout
Timeout ==
  /\ pc = "wait"
  /\ pending[callId] = <<>>
  /\ pc' = "pop"
  /\ UNCHANGED <<termVars, readerVars, process, msgId, pending, notifications, api,
                 callId, chunks, ret, got, taken,
                 preamble, wire, proxyVars, pipeVars, hookVars>>

\* self._pending.pop(msg_id, None) and the return
Pop ==
  /\ pc = "pop"
  /\ pending' = [id \in DOMAIN pending \ {callId} |-> pending[id]]
  /\ pc' = "idle"
  /\ ret' = IF api = "prompt" THEN [kind |-> "value", how |-> "return", text |-> chunks]
            ELSE IF api = "preamble" THEN Started
            ELSE [kind |-> "stop", how |-> "return", text |-> ""]
  /\ UNCHANGED <<termVars, readerVars, process, msgId, notifications, api, callId,
                 chunks, got, taken,
                 preamble, wire, proxyVars, pipeVars, hookVars>>

\* the consumer of prompt_stream asks for the next item
Resume ==
  /\ pc = "yield"
  /\ pc' = "wait"
  /\ UNCHANGED <<termVars, readerVars, process, msgId, pending, notifications, api,
                 callId, chunks, ret, got, taken,
                 preamble, wire, proxyVars, pipeVars, hookVars>>

\* the consumer stops iterating: the generator is closed at its yield and the
\* pop after the loop never runs
Abandon ==
  /\ pc = "yield"
  /\ pc' = "idle"
  /\ ret' = [kind |-> "closed", how |-> "abandon", text |-> ""]
  /\ UNCHANGED <<termVars, readerVars, process, msgId, pending, notifications, api,
                 callId, chunks, got, taken,
                 preamble, wire, proxyVars, pipeVars, hookVars>>

StopNoPoll(st) ==
  [process |-> st.process, alive |-> FALSE,
   signals |-> st.signals + IF st.process = "set" THEN 1 ELSE 0]

\* stop() on the client state st: only `if self.process and
\* self.process.poll() is None` is the agent terminated (one signal more);
\* the reference is dropped in every case
StopOf(st) ==
  [process |-> "none",
   alive |-> IF st.process = "set" /\ st.alive THEN FALSE ELSE st.alive,
   signals |-> st.signals + IF st.process = "set" /\ st.alive THEN 1 ELSE 0]

\* the client state stop() works on, no signal sent yet
Here == [process |-> process, alive |-> procAlive, signals |-> 0]

\* stop() (a call without a reference changes nothing and is no step)
Stop ==
  /\ process = "set"
  /\ procAlive' = StopOf(Here).alive
  /\ process' = StopOf(Here).process
  /\ UNCHANGED <<termVars, readerPc, readerExit, cur, nread, lastReply, replyCount,
                 bcLen, bcDone, agentOpts, agentIn, agentEnded,
                 msgId, pending, notifications, pc, api, callId, chunks, ret, got, taken,
                 preamble, wire, proxyVars, pipeVars, hookVars>>

\* ------------------------------------------------------ specifications

InitTerm ==
  /\ termObj = <<>> /\ registry = {} /\ termLock = 0
  /\ cmd = <<>> /\ pipe = <<>> /\ rd = <<>> /\ fed = <<>> /\ written = 0

\* the reader thread of a started client
InitReader ==
  /\ procAlive = TRUE /\ readerPc = "read" /\ readerExit = ""
  /\ cur = NoLine /\ nread = 0 /\ lastReply = NoLine /\ replyCount = <<>>
  /\ bcLen = 0 /\ bcDone = {} /\ agentOpts = <<>>
  /\ agentIn = <<>> /\ agentEnded = FALSE

\* what start() has written
StartWire ==
  <<[id |-> 1, method |-> "initialize"], [id |-> 2, method |-> "session/new"],
    [id |-> 3, method |-> "session/prompt"]>>

\* a started client: initialize, session/new and the preamble took ids 1..3
InitCall ==
  /\ process = "set" /\ msgId = StartIds /\ pending = <<>> /\ notifications = <<>>
  /\ pc = "idle" /\ api = "" /\ callId = 0 /\ chunks = "" /\ ret = NoRet /\ got = <<>>
  /\ taken = 0 /\ preamble = TRUE /\ wire = StartWire

Tids == 0..MaxTerminals

\* the terminals: what the commands and their reader threads do
TermThreads ==
  \/ \E t \in 1..MaxTerminals, b \in Bytes : CmdWrite(t, b)
  \/ \E t \in 1..MaxTerminals, c \in {0, 1} : CmdExit(t, c)
  \/ \E t \in 1..MaxTerminals, n \in 1..MaxOut : RdRead(t, n)
  \/ \E t \in 1..MaxTerminals : RdEof(t)
  \/ \E t \in 1..MaxTerminals : RdAppend(t)
  \/ \E t \in 1..MaxTerminals : RdCheck(t)

\* the terminal/* requests the reader thread serves
TermRequests ==
  \/ \E mob \in 0..MaxCap : nread < MaxTermLines /\ InCreate(mob, TRUE)
  \/ InCreateRegister
  \/ \E tid \in Tids : nread < MaxTermLines /\ InOutput(tid)

InitT == InitTerm /\ InitReader /\ InitCall /\ InitProxy /\ InitPipe /\ InitHook
NextT == TermThreads \/ TermRequests

\* the TerminalManager under the requests of a live agent
SpecTerm == InitT /\ [][NextT]_vars

\* ------------------------------------------------------------- C4, C5

IsReplyTo(method) == lastReply.k = "reply" /\ lastReply.req.method = method

\* C4: the output a terminal/output reply carries for a terminal is never
\* longer than the terminal's cap, whatever the command has written and
\* wherever the terminal's reader thread stands
C4_OutputWithinCap ==
  (IsReplyTo("terminal/output") /\ lastReply.req.arg \in DOMAIN termObj)
    => Len(lastReply.result.output) <= termObj[lastReply.req.arg].max_bytes

\* a reply for a terminal of cap 1 whose command wrote more: one byte, truncated
C4_Witness ==
  /\ IsReplyTo("terminal/output")
  /\ lastReply.req.arg \in DOMAIN termObj
  /\ termObj[lastReply.req.arg].max_bytes = 1
  /\ Len(fed[lastReply.req.arg]) >= 2
  /\ Len(lastReply.result.output) = 1
  /\ lastReply.result.truncated

\* outside the reader thread's locked section
Settled(t) == rd[t].pc # "check"

BufferIsPrefix(t) ==
  /\ termObj[t].output = Take(fed[t], termObj[t].max_bytes)
  /\ termObj[t].truncated = (Len(fed[t]) > termObj[t].max_bytes)

\* C5: outside the locked section the buffer is the first min(total, cap)
\* bytes fed so far and truncated says total > cap; what was fed is only ever
\* extended and truncated is never reset, so a full buffer no longer changes
C5_BufferIsPrefix ==
  /\ [](\A t \in DOMAIN termObj : Settled(t) => BufferIsPrefix(t))
  /\ [][\A t \in DOMAIN termObj :
          /\ termObj[t].truncated => termObj'[t].truncated
          /\ Take(fed'[t], Len(fed[t])) = fed[t]
          /\ termObj'[t].max_bytes = termObj[t].max_bytes]_vars

\* two chunks were fed after the buffer of a terminal was full
C5_Witness ==
  \E t \in DOMAIN termObj :
    /\ Settled(t)
    /\ termObj[t].truncated
    /\ Len(fed[t]) >= termObj[t].max_bytes + 2
    /\ Len(termObj[t].output) = termObj[t].max_bytes

\* ----------------------------------------------------------------- C6

OptionLists == UNION {[1..n -> Option] : n \in 0..MaxOpts}

InitP ==
  /\ InitTerm /\ InitCall /\ InitProxy /\ InitPipe /\ InitHook
  /\ procAlive = TRUE /\ readerPc = "read" /\ readerExit = ""
  /\ cur = NoLine /\ nread = 0 /\ lastReply = NoLine /\ replyCount = <<>>
  /\ bcLen = 0 /\ bcDone = {}
  /\ agentIn = <<>> /\ agentEnded = FALSE
  /\ agentOpts \in OptionLists

NextP == InPermission(agentOpts)

\* the permission approval over every options list
SpecPerm == InitP /\ [][NextP]_vars

\* the option the claim names: the first allow_always, else the first
\* allow_once, else the first option, else none
Preferred(options) ==
  IF OfKind(options, "allow_always") # {}
  THEN options[MinOf(OfKind(options, "allow_always"))].optionId
  ELSE IF OfKind(options, "allow_once") # {}
  THEN options[MinOf(OfKind(options, "allow_once"))].optionId
  ELSE IF options # <<>> THEN options[1].optionId
  ELSE None

\* C6: the reply to session/request_permission carries the id of the first
\* allow_always option if there is one, else of the first allow_once option,
\* else of the first option, and no id for an empty list
C6_FirstAllowAlways ==
  IsReplyTo("session/request_permission")
    => lastReply.result.optionId = Preferred(lastReply.req.arg)

\* the same over the lists whose options all carry a non-empty id
C6_WithIds ==
  (IsReplyTo("session/request_permission")
    /\ \A i \in DOMAIN lastReply.req.arg : ~Falsy(lastReply.req.arg[i].optionId))
    => lastReply.result.optionId = Preferred(lastReply.req.arg)

\* ------------------------------------------------------ a started session

InitC == InitTerm /\ InitReader /\ InitCall /\ InitProxy /\ InitPipe /\ InitHook

CallerSteps ==
  \/ \E a \in Apis : Send(a)
  \/ Register
  \/ Get
  \/ Timeout
  \/ Pop
  \/ Resume
  \/ Abandon
  \/ Stop

ReaderSteps ==
  \/ \E body \in Bodies : nread < MaxCallLines /\ InResponse(body)
  \/ \E u \in AgentUpdates : nread < MaxCallLines /\ InUpdate(u)
  \/ Route
  \/ ReadEof
  \/ AgentExit
  \/ BcStep

NextC == CallerSteps \/ ReaderSteps

SpecCalls == InitC /\ [][NextC]_vars

\* C1: every request the session facade has written has exactly one queue
\* under its id in the pending table until its call closes, and once the
\* call has closed the id is in the table no more.
C1_OneQueueUntilClosed ==
  /\ pc \in {"reg", "wait", "yield"} => callId \in DOMAIN pending
  /\ pc = "idle" => DOMAIN pending = {}

\* C2: once the agent has exited and the reader thread has finished, a call
\* that is still outstanding has been given the close-sentinel.
C2_ExitClosesOutstanding ==
  (~procAlive /\ readerPc = "done" /\ readerExit \in {"eof", "poll"}
     /\ pc \in {"reg", "wait", "yield"})
    => \E i \in 1..Len(got) : got[i].k = "None"

\* C3: whatever the agent sent that is on the queue of a call, it sent for
\* the turn of that call.
C3_NoBleed ==
  \A id \in DOMAIN pending :
    \A i \in 1..Len(pending[id]) : pending[id][i].turn \in {0, id}

\* the items the call in progress has taken off its queue
Taken == SubSeq(got, 1, taken)

RECURSIVE SaidOf(_)
\* the texts of the items, concatenated in order
SaidOf(items) ==
  IF items = <<>> THEN "" ELSE Head(items).said \o SaidOf(Tail(items))

C10_ResponseIsTerminal ==
  pc = "wait" => \A i \in 1..taken : got[i].k \notin {"error", "result"}

\* ------------------------------------------------- the agent's requests

PermSamples ==
  {<<>>, <<[kind |-> "allow_once", optionId |-> Some("a")],
            [kind |-> "allow_always", optionId |-> Some("b")]>>}

InboundSteps ==
  \/ InBadJson
  \/ InBadUtf8
  \/ \E spawn \in BOOLEAN : InCreate(0, spawn)
  \/ InCreateRegister
  \/ \E tid \in Tids : InOutput(tid)
  \/ \E tid \in Tids : InWait(tid)
  \/ WaitExited
  \/ WaitTimeout
  \/ \E tid \in Tids : InKill(tid)
  \/ \E tid \in Tids : InRelease(tid)
  \/ \E options \in PermSamples : InPermission(options)
  \/ InUnknown

InboundEnv ==
  \/ \E t \in 1..MaxTerminals, c \in {0, 1} : CmdExit(t, c)
  \/ \E t \in 1..MaxTerminals : RdEof(t)
  \/ AgentExit
  \/ ReadEof
  \/ BcStep

NextI == InboundSteps \/ InboundEnv

\* the reader thread under the agent's requests and malformed lines
SpecInbound == InitT /\ [][NextI]_vars

\* C7: a line that is not valid JSON does not end the reader loop.
C7_MalformedLineSkipped == readerExit # "UnicodeDecodeError"

\* C8: while the agent is alive and the reader thread is not inside a
\* handler, every inbound request read so far has exactly one reply.
C8_EveryRequestAnswered ==
  (procAlive /\ readerPc \in {"read", "bcast", "done"})
    => \A id \in DOMAIN replyCount : replyCount[id] = 1

\* --------------------------------------------------------------- start()

\* subprocess.Popen([kiro_cli, "acp"]) and the reader thread; Popen raises
\* when the binary is missing
Start(spawn) ==
  /\ pc = "new"
  /\ IF spawn
     THEN /\ process' = "set" /\ procAlive' = TRUE /\ readerPc' = "read"
          /\ pc' = "hs_reg" /\ api' = "initialize"
          /\ UNCHANGED ret
     ELSE /\ pc' = "failed" /\ ret' = Raised("FileNotFoundError")
          /\ UNCHANGED <<process, procAlive, readerPc, api>>
  /\ UNCHANGED <<termVars, readerExit, cur, nread, lastReply, replyCount, bcLen, bcDone,
                 agentOpts, agentIn, agentEnded,
                 msgId, pending, notifications, callId, chunks, got, taken, preamble, wire, proxyVars, pipeVars, hookVars>>

\* _request: msg_id = self._next_id(); self._pending[msg_id] = result_queue
ReqRegister ==
  /\ pc = "hs_reg"
  /\ msgId' = msgId + 1
  /\ callId' = msgId + 1
  /\ pending' = pending @@ ((msgId + 1) :> <<>>)
  /\ got' = <<>> /\ taken' = 0
  /\ pc' = "hs_send"
  /\ UNCHANGED <<termVars, readerVars, process, notifications, api, chunks, ret,
                 preamble, wire, proxyVars, pipeVars, hookVars>>

\* the write of _send succeeds
CanWrite == process = "set" /\ procAlive

\* _request: self._send(...), outside its try: an exception of the write
\* leaves the queue in the table
ReqSend ==
  /\ pc = "hs_send"
  /\ IF CanWrite
     THEN /\ wire' = Append(wire, [id |-> callId, method |-> api])
          /\ agentIn' = Append(agentIn, [id |-> callId])
          /\ pc' = "hs_wait"
          /\ UNCHANGED ret
     ELSE /\ pc' = "failed" /\ ret' = Raised("send")
          /\ UNCHANGED <<wire, agentIn>>
  /\ UNCHANGED <<termVars, procAlive, readerPc, readerExit, cur, nread, lastReply,
                 replyCount, bcLen, bcDone, agentOpts, agentEnded,
                 process, msgId, pending, notifications, api, callId, chunks, got, taken,
                 preamble, proxyVars, pipeVars, hookVars>>

PreambleAlways == TRUE

\* `if self.preamble:`
HasPreamble == preamble

NotPopped == pending

\* the queue without the entry of the call
Popped == [id \in DOMAIN pending \ {callId} |-> pending[id]]

\* _request: result_queue.get() returns resp, the finally pops the id, and
\* start() goes on: RuntimeError for {"error": ...}; AttributeError for
\* resp.get of None after session/new; the preamble only if it is non-empty
ReqGet ==
  /\ pc = "hs_wait"
  /\ pending[callId] # <<>>
  /\ LET resp == Head(pending[callId]) IN
     /\ pending' = Popped
     /\ taken' = 1
     /\ IF resp.k = "error"
        THEN pc' = "failed" /\ ret' = Raised("RuntimeError") /\ UNCHANGED api
        ELSE IF api = "initialize"
        THEN pc' = "hs_reg" /\ api' = "session/new" /\ UNCHANGED ret
        ELSE IF resp.k = "None"
        THEN pc' = "failed" /\ ret' = Raised("AttributeError") /\ UNCHANGED api
        ELSE IF HasPreamble
        THEN pc' = "pre_send" /\ UNCHANGED <<api, ret>>
        ELSE pc' = "idle" /\ ret' = Started /\ UNCHANGED api
  /\ UNCHANGED <<termVars, readerVars, process, msgId, notifications, callId, chunks,
                 got, preamble, wire, proxyVars, pipeVars, hookVars>>

\* _request: queue.Empty after the window; the finally pops the id and
\* TimeoutError is raised
ReqTimeout ==
  /\ pc = "hs_wait"
  /\ pending[callId] = <<>>
  /\ pending' = Popped
  /\ pc' = "failed" /\ ret' = Raised("TimeoutError")
  /\ UNCHANGED <<termVars, readerVars, process, msgId, notifications, api, callId,
                 chunks, got, taken, preamble, wire, proxyVars, pipeVars, hookVars>>

\* _send_preamble: msg_id = self._next_id(); self._send(...)
PreSend ==
  /\ pc = "pre_send"
  /\ msgId' = msgId + 1
  /\ callId' = msgId + 1
  /\ api' = "preamble"
  /\ got' = <<>> /\ taken' = 0
  /\ IF CanWrite
     THEN /\ wire' = Append(wire, [id |-> msgId + 1, method |-> "session/prompt"])
          /\ agentIn' = Append(agentIn, [id |-> msgId + 1])
          /\ pc' = "reg"
          /\ UNCHANGED ret
     ELSE /\ pc' = "failed" /\ ret' = Raised("send")
          /\ UNCHANGED <<wire, agentIn>>
  /\ UNCHANGED <<termVars, procAlive, readerPc, readerExit, cur, nread, lastReply,
                 replyCount, bcLen, bcDone, agentOpts, agentEnded,
                 process, pending, notifications, chunks, preamble, proxyVars, pipeVars, hookVars>>

\* a client that has been constructed and not started
InitS ==
  /\ InitTerm /\ InitProxy /\ InitPipe /\ InitHook
  /\ procAlive = FALSE /\ readerPc = "off" /\ readerExit = "" /\ cur = NoLine
  /\ nread = 0 /\ lastReply = NoLine /\ replyCount = <<>>
  /\ bcLen = 0 /\ bcDone = {} /\ agentOpts = <<>>
  /\ agentIn = <<>> /\ agentEnded = FALSE
  /\ process = "none" /\ msgId = 0 /\ pending = <<>> /\ notifications = <<>>
  /\ pc = "new" /\ api = "" /\ callId = 0 /\ chunks = "" /\ ret = NoRet /\ got = <<>>
  /\ taken = 0 /\ preamble \in BOOLEAN /\ wire = <<>>

StartSteps ==
  \/ \E spawn \in BOOLEAN : Start(spawn)
  \/ ReqRegister
  \/ ReqSend
  \/ ReqGet
  \/ ReqTimeout
  \/ PreSend
  \/ Register
  \/ Get
  \/ Timeout
  \/ Pop

StartEnv ==
  \/ \E body \in Bodies : nread < MaxStartLines /\ InResponse(body)
  \/ \E u \in AgentUpdates : nread < MaxStartLines /\ InUpdate(u)
  \/ Route
  \/ ReadEof
  \/ AgentExit
  \/ BcStep

NextS == StartSteps \/ StartEnv

\* start() against the agent
SpecStart == InitS /\ [][NextS]_vars

Handshake == {"initialize", "session/new"}

\* C11: a handshake request whose response carries an error makes start()
\* raise RuntimeError, and one whose window passes with nothing on its queue
\* makes it raise TimeoutError; in both cases the id is out of the pending
\* table and the failed request is the last one written.
C11_HandshakeFailure ==
  api \in Handshake =>
    /\ (taken = 1 /\ got[1].k = "error") => (pc = "failed" /\ ret = Raised("RuntimeError"))
    /\ (pc = "failed" /\ taken = 0 /\ wire # <<>> /\ Last(wire).id = callId)
         => ret = Raised("TimeoutError")
    /\ (pc = "failed" /\ ret.how \in {"RuntimeError", "TimeoutError"})
         => (callId \notin DOMAIN pending /\ Last(wire).id = callId)

\* session/new was answered with an error and start() raised
C11_Witness ==
  /\ api = "session/new" /\ pc = "failed" /\ ret = Raised("RuntimeError")
  /\ taken = 1 /\ got[1].k = "error" /\ Len(wire) = 2

C13_InOrderNoDuplicates ==
  /\ [](/\ (pc \in {"wait", "yield", "pop"} /\ callId \in DOMAIN pending)
             => pending[callId] = SubSeq(got, taken + 1, Len(got))
        /\ \A i, j \in 1..Len(got) :
             (i < j /\ got[i].line # 0 /\ got[j].line # 0) => got[i].line < got[j].line)
  /\ [][nread' # nread => (readerPc = "read" /\ nread' = nread + 1)]_vars

\* a prompt_stream consumer holds the second of two updates it was given
C13_Witness ==
  /\ api = "stream" /\ pc = "yield" /\ taken = 2
  /\ got[1].k = "update" /\ got[2].k = "update" /\ got[1].line < got[2].line

\* C14: a write that fails because the agent has exited raises nothing to
\* the caller.
C14_WriteFailureSwallowed == ~(ret.kind = "raise" /\ ret.how = "send")

NextL == NextS \/ Stop

\* start() and stop() against the agent
SpecLife == InitS /\ [][NextL]_vars

\* C15: in every state of the client a second stop() right after a first one
\* sends no signal and leaves the state as the first one left it.
C15_StopIdempotent ==
  LET first == StopOf(Here)
      second == StopOf(first)
  IN /\ second.signals = first.signals
     /\ second.process = first.process /\ second.alive = first.alive
     /\ first.process = "none"

\* stop() has run on a started client whose agent was alive
C15_Witness ==
  /\ process = "none" /\ ~procAlive /\ wire # <<>> /\ readerExit = "eof"
  /\ StopOf(Here) = Here

\* ------------------------------------------- the terminals after creation

\* two terminal/create requests have been served: terminals 1 and 2, default
\* cap, commands running, nothing written yet
InitOps ==
  /\ termObj = (1 :> NewTerminal(0)) @@ (2 :> NewTerminal(0))
  /\ registry = {1, 2} /\ termLock = 0
  /\ cmd = [t \in {1, 2} |-> [alive |-> TRUE, code |-> 0]]
  /\ pipe = [t \in {1, 2} |-> <<>>]
  /\ rd = [t \in {1, 2} |-> [pc |-> "read", chunk |-> <<>>]]
  /\ fed = [t \in {1, 2} |-> <<>>]
  /\ written = 0
  /\ InitReader /\ InitCall /\ InitProxy /\ InitPipe /\ InitHook

\* the ids a request may name: the terminals and an id never given out
OpsTids == DOMAIN termObj \cup {0}

OpsThreads ==
  \/ \E t \in DOMAIN termObj : written < MaxOpsOut /\ CmdWrite(t, "a")
  \/ \E t \in DOMAIN termObj, c \in {0, 1} : CmdExit(t, c)
  \/ \E t \in DOMAIN termObj, n \in 1..MaxOpsOut : RdRead(t, n)
  \/ \E t \in DOMAIN termObj : RdEof(t)
  \/ \E t \in DOMAIN termObj : RdAppend(t)
  \/ \E t \in DOMAIN termObj : RdCheck(t)

OpsRequests ==
  \/ \E tid \in OpsTids : nread < MaxOpsLines /\ InOutput(tid)
  \/ \E tid \in OpsTids : nread < MaxOpsLines /\ InWait(tid)
  \/ WaitExited
  \/ WaitTimeout
  \/ \E tid \in OpsTids : nread < MaxOpsLines /\ InKill(tid)
  \/ \E tid \in OpsTids : nread < MaxOpsLines /\ InRelease(tid)

NextOps == OpsThreads \/ OpsRequests

\* the requests on existing terminals, with the commands running
SpecOps == InitOps /\ [][NextOps]_vars

\* the terminal was created and is in the registry no more
Released(t) == t \in DOMAIN termObj /\ t \notin registry

\* C16 as stated: every request naming a released terminal is answered
\* with a result that carries an exit code (-1).
C16_RepliesCarryExitCode ==
  [][(lastReply' # lastReply /\ Released(lastReply'.req.arg))
       => "exitCode" \in DOMAIN lastReply'.result]_vars

\* C16: a released terminal is out of the registry and its process is not
\* running; a later request naming it is answered by the step that reads it
\* (nothing blocks, nothing raises) and changes no terminal: terminal/output
\* gets exit code -1 with empty output, terminal/wait_for_exit exit code -1,
\* terminal/kill and terminal/release the empty result; a request changes no
\* terminal but the one it names.
C16_ReleasedIsNotFound ==
  /\ [](\A t \in DOMAIN termObj : Released(t) => ~cmd[t].alive)
  /\ [][(lastReply' # lastReply /\ Released(lastReply'.req.arg))
          => /\ nread' = nread + 1 /\ readerPc' = "read"
             /\ LET m == lastReply'.req.method
                    r == lastReply'.result
                IN /\ m = "terminal/output" => r = NotFound
                   /\ m = "terminal/wait_for_exit" => r = [exitCode |-> -1]
                   /\ m \in {"terminal/kill", "terminal/release"} => r = EmptyDict
             /\ termObj' = termObj /\ registry' = registry /\ cmd' = cmd]_vars
  /\ [][\A t \in DOMAIN termObj :
          (lastReply' # lastReply /\ lastReply'.req.arg # t)
            => /\ termObj'[t] = termObj[t] /\ cmd'[t] = cmd[t]
               /\ (t \in registry') = (t \in registry)]_vars

\* terminal/output for a released terminal that had captured a byte
C16_Witness ==
  /\ IsReplyTo("terminal/output")
  /\ Released(lastReply.req.arg)
  /\ Len(termObj[lastReply.req.arg].output) = 1
  /\ lastReply.result = NotFound
  /\ Cardinality(registry) = 1

\* C17: the step that answers terminal/kill changes no record, buffer, flag
\* or registry entry, and nothing at all when the terminal is unknown or its
\* process has exited; terminal/output for a registered terminal returns the
\* buffer as it is, killed or not.
C17_KillKeepsRecord ==
  /\ [][(lastReply' # lastReply /\ lastReply'.req.method = "terminal/kill")
          => /\ termObj' = termObj /\ registry' = registry /\ fed' = fed
             /\ pipe' = pipe /\ rd' = rd
             /\ LET t == lastReply'.req.arg IN
                  (t \notin registry \/ ~cmd[t].alive) => cmd' = cmd]_vars
  /\ [][(lastReply' # lastReply /\ lastReply'.req.method = "terminal/output"
           /\ lastReply'.req.arg \in registry)
          => LET t == lastReply'.req.arg IN
               lastReply'.result = [output |-> Decode(termObj[t].output),
                                    exitCode |-> Poll(t),
                                    truncated |-> termObj[t].truncated]]_vars

\* terminal/output after terminal/kill: the byte captured, the kill's exit code
C17_Witness ==
  /\ IsReplyTo("terminal/output")
  /\ lastReply.req.arg \in registry
  /\ cmd[lastReply.req.arg] = [alive |-> FALSE, code |-> -9]
  /\ lastReply.result.output = <<"a">>
  /\ lastReply.result.exitCode = Some(-9)

\* the thread that serves the requests runs on: process.wait() returns when
\* the process has exited, and at the latest when its timeout expires
SpecOpsLive == SpecOps /\ WF_vars(WaitExited) /\ WF_vars(WaitTimeout)

\* C18: a terminal/wait_for_exit request that has been read is eventually
\* answered; the reply carries the exit code of the process when it has
\* exited, -1 when the wait timed out and the process was killed, and -1
\* from the step that reads the request when the id is unknown.
C18_WaitAnswered ==
  /\ \A id \in 1..MaxOpsLines :
       (id \in DOMAIN replyCount /\ replyCount[id] = 0)
         ~> (id \in DOMAIN replyCount /\ replyCount[id] = 1)
  /\ [][(lastReply' # lastReply /\ lastReply'.req.method = "terminal/wait_for_exit")
          => LET t == lastReply'.req.arg
                 code == lastReply'.result.exitCode
             IN IF t \notin registry THEN code = -1 /\ nread' = nread + 1
                ELSE IF ~cmd[t].alive THEN code = cmd[t].code
                ELSE code = -1 /\ ~cmd'[t].alive]_vars

\* a wait that timed out: the process was killed and the reply carries -1
C18_Witness ==
  /\ IsReplyTo("terminal/wait_for_exit")
  /\ lastReply.req.arg \in registry
  /\ lastReply.result.exitCode = -1
  /\ cmd[lastReply.req.arg] = [alive |-> FALSE, code |-> -9]

\* ------------------------------------------------ the two wire forms

\* `if method in ("session/notification", "session/update")`
SessionMethods == {"session/notification", "session/update"}

\* a notification of either method carrying a session update
InSessionUpdate(method, u) == method \in SessionMethods /\ InUpdate(u)

ShapeTexts == {"", "h", "i"}

\* a text chunk in the current and in the legacy form
ShapeUpdates ==
  {[upd |-> ChunkNew(x), said |-> x] : x \in ShapeTexts}
    \cup {[upd |-> ChunkLegacy(x), said |-> x] : x \in ShapeTexts}

NextShape ==
  \/ Send("prompt")
  \/ Register
  \/ Get
  \/ Timeout
  \/ Pop
  \/ \E method \in SessionMethods, u \in ShapeUpdates :
       nread < MaxShapeLines /\ InSessionUpdate(method, u)
  \/ Route

\* prompt() against an agent that sends text chunks in both forms
SpecShape == InitC /\ [][NextShape]_vars

\* C19: a text chunk of either form, by either notification method, is put
\* on the queue under the type tag AgentMessageChunk and its extracted text
\* is the text X it carries, so the two forms of one X agree and prompt()
\* holds the concatenation of the X's whatever the forms were.
C19_BothShapesAgree ==
  /\ \A x \in ShapeTexts :
       /\ Normalized(ChunkNew(x)).type = Normalized(ChunkLegacy(x)).type
       /\ ExtractText(Normalized(ChunkNew(x))) = Some(x)
       /\ ExtractText(Normalized(ChunkLegacy(x))) = Some(x)
  /\ \A i \in 1..Len(got) :
       got[i].k = "update"
         => /\ got[i].msg.type = Some("AgentMessageChunk")
            /\ ExtractText(got[i].msg) = Some(got[i].said)
  /\ pc \in {"wait", "pop"} => chunks = SaidOf(Taken)
  /\ ret.kind = "value" => ret.text = SaidOf(Taken)

\* prompt() returned "hh": one h in the current form, one in the legacy form
C19_Witness ==
  /\ pc = "idle" /\ ret.kind = "value" /\ ret.text = "hh" /\ taken = 2
  /\ got[1].msg.sessionUpdate # None /\ got[2].msg.sessionUpdate = None

\* ------------------------------------------------------------ kiro-proxy
\* One conversation id. The handlers are coroutines of one event loop: a
\* step runs from one suspension (await, yield) to the next.

acpVars == <<termVars, readerVars, callVars, pipeVars, hookVars>>

\* the process the table holds is running
ActiveRuns == active # None /\ kiro[active[1]].running

\* _kill_proc(conv_id): pop the entry; kill the process if it has not exited
KillProc ==
  /\ active' = None
  /\ kiro' = IF ActiveRuns THEN [kiro EXCEPT ![active[1]].running = FALSE] ELSE kiro

\* asyncio.create_subprocess_exec up to its suspension: the process runs;
\* early: it was spawned before an abort request had completed (history)
Spawned(procs) == Append(procs, [running |-> TRUE, early |-> abortPc # "done"])

\* a /v1/chat/completions request has been read; stream is body["stream"]
Arrive(stream) ==
  /\ Len(chats) < MaxChats
  /\ chats' = Append(chats, [stream |-> stream, pc |-> "kill_old", proc |-> 0])
  /\ UNCHANGED <<acpVars, active, kiro, abortPc>>

\* await _kill_proc(conv_id), then create_subprocess_exec: with a running
\* process in the table the coroutine is suspended in proc.wait(); with none
\* it runs on into the spawn
HKillOld(h) ==
  /\ h \in 1..Len(chats) /\ chats[h].pc = "kill_old"
  /\ active' = None
  /\ IF ActiveRuns
     THEN /\ kiro' = [kiro EXCEPT ![active[1]].running = FALSE]
          /\ chats' = [chats EXCEPT ![h].pc = "spawn"]
     ELSE /\ kiro' = Spawned(kiro)
          /\ chats' = [chats EXCEPT ![h].pc = "spawning", ![h].proc = Len(kiro) + 1]
  /\ UNCHANGED <<acpVars, abortPc>>

\* create_subprocess_exec after the wait of _kill_proc
HSpawn(h) ==
  /\ h \in 1..Len(chats) /\ chats[h].pc = "spawn"
  /\ kiro' = Spawned(kiro)
  /\ chats' = [chats EXCEPT ![h].pc = "spawning", ![h].proc = Len(kiro) + 1]
  /\ UNCHANGED <<acpVars, active, abortPc>>

\* _active_procs[conv_id] = proc, the prompt is written, and the handler
\* waits for output
HRegister(h) ==
  /\ h \in 1..Len(chats) /\ chats[h].pc = "spawning"
  /\ active' = Some(chats[h].proc)
  /\ chats' = [chats EXCEPT ![h].pc = "run"]
  /\ UNCHANGED <<acpVars, kiro, abortPc>>

\* end of output (the read returns b"", communicate() returns): completed,
\* and _active_procs.pop(conv_id, None)
HEof(h) ==
  /\ h \in 1..Len(chats) /\ chats[h].pc = "run"
  /\ ~kiro[chats[h].proc].running
  /\ active' = None
  /\ chats' = [chats EXCEPT ![h].pc = "done"]
  /\ UNCHANGED <<acpVars, kiro, abortPc>>

\* the client of a streaming request disconnects (the finally of
\* _stream_kiro), or communicate() of a non-streaming one times out:
\* _kill_proc(conv_id)
HAbandon(h) ==
  /\ h \in 1..Len(chats) /\ chats[h].pc = "run"
  /\ chats[h].stream \/ kiro[chats[h].proc].running
  /\ KillProc
  /\ chats' = [chats EXCEPT ![h].pc = "done"]
  /\ UNCHANGED <<acpVars, abortPc>>

\* a kiro-cli process exits on its own
KiroExit(p) ==
  /\ p \in 1..Len(kiro) /\ kiro[p].running
  /\ kiro' = [kiro EXCEPT ![p].running = FALSE]
  /\ UNCHANGED <<acpVars, active, chats, abortPc>>

\* chat_abort: await _kill_proc(conv_id)
AbortKill ==
  /\ abortPc = "idle"
  /\ KillProc
  /\ abortPc' = "wait"
  /\ UNCHANGED <<acpVars, chats>>

\* chat_abort: return JSONResponse({"ok": True, ...})
AbortReturn ==
  /\ abortPc = "wait"
  /\ abortPc' = "done"
  /\ UNCHANGED <<acpVars, active, kiro, chats>>

InitX == InitT

NextX ==
  \/ \E stream \in BOOLEAN : Arrive(stream)
  \/ \E h \in 1..MaxChats : HKillOld(h)
  \/ \E h \in 1..MaxChats : HSpawn(h)
  \/ \E h \in 1..MaxChats : HRegister(h)
  \/ \E h \in 1..MaxChats : HEof(h)
  \/ \E h \in 1..MaxChats : HAbandon(h)
  \/ \E p \in 1..MaxChats : KiroExit(p)
  \/ AbortKill
  \/ AbortReturn

\* the proxy under completions requests and one abort for a conversation
SpecProxy == InitX /\ [][NextX]_vars

\* C20: once the abort request has completed, no kiro-cli process that was
\* spawned for the conversation before that is running or in the
\* active-process table.
C20_AbortLeavesNothing ==
  abortPc = "done"
    => \A p \in 1..Len(kiro) :
         kiro[p].early => (~kiro[p].running /\ active # Some(p))

\* ------------------------------------------------- routing of one line

\* the kind of queue item a response with that body is due
DueKind(body) ==
  CASE body = "error" -> "error"
    [] body = "stop" -> "None"
    [] OTHER -> "result"

\* the step appends exactly one item, of kind k, to the queue under id and
\* changes no other queue
PutOnly(id, k) ==
  /\ id \in DOMAIN pending
  /\ DOMAIN pending' = DOMAIN pending
  /\ \A j \in DOMAIN pending \ {id} : pending'[j] = pending[j]
  /\ Len(pending'[id]) = Len(pending[id]) + 1
  /\ SubSeq(pending'[id], 1, Len(pending[id])) = pending[id]
  /\ Last(pending'[id]).k = k

\* C21: a response goes to the queue registered under its own id and to no
\* other: {"error": ...} for an error, the close-sentinel for a result with
\* a stopReason, the result itself otherwise; with no queue under the id it
\* changes no queue and not the sink, and nothing is written to the agent.
C21_ResponseToOwnQueue ==
  [][\A body \in Bodies :
       InResponse(body) =>
         /\ IF Head(agentIn).id \in DOMAIN pending
            THEN PutOnly(Head(agentIn).id, DueKind(body))
            ELSE pending' = pending
         /\ notifications' = notifications
         /\ lastReply' = lastReply /\ wire' = wire]_vars

\* an error response sits on the queue of an earlier call while a later
\* call has its own queue
C21_Witness ==
  \E id \in DOMAIN pending :
    /\ id < MaxOf(DOMAIN pending)
    /\ pending[id] # <<>> /\ Last(pending[id]).k = "error"
    /\ Last(pending[id]).turn = id

\* C22: a session-update notification is delivered to exactly one place:
\* with no pending call it is appended to the notification sink and no queue
\* changes; otherwise one item (the close-sentinel for a turn end, else the
\* normalized update) is appended to the queue of the latest pending call,
\* to no other queue and not to the sink.
C22_UpdateToOneDestination ==
  [][/\ \A u \in AgentUpdates :
          InUpdate(u) =>
            IF DOMAIN pending = {}
            THEN notifications' = Append(notifications, u.upd) /\ pending' = pending
            ELSE /\ cur'.mid = MaxOf(DOMAIN pending)
                 /\ cur'.item.k = IF NormType(UpdateType(u.upd)) = "TurnEnd"
                                  THEN "None" ELSE "update"
                 /\ notifications' = notifications /\ pending' = pending
     /\ Route => PutOnly(cur.mid, cur.item.k) /\ notifications' = notifications]_vars

\* --------------------------------------------------- other notifications
\* A method name is the sequence of its parts between the slashes.

RECURSIVE Joined(_)
\* the method string
Joined(m) ==
  IF m = <<>> THEN ""
  ELSE IF Len(m) = 1 THEN m[1]
  ELSE m[1] \o "/" \o Joined(Tail(m))

StartsWithKiroLoose(m) == m # <<>> /\ m[1] = "_kiro.dev"

\* method.startswith("_kiro.dev/")
StartsWithKiro(m) == Len(m) >= 2 /\ m[1] = "_kiro.dev"

\* the notification dict that goes to the sink
Note(m) == [method |-> Joined(m)]

\* a line without id whose method is not of the session-update family
InOther(m) ==
  /\ ReadPre
  /\ Joined(m) \notin SessionMethods
  /\ notifications' = IF StartsWithKiro(m) THEN notifications
                      ELSE Append(notifications, Note(m))
  /\ Book
  /\ Continue
  /\ NoReply
  /\ UNCHANGED <<termVars, procAlive, cur, agentOpts, agentIn, agentEnded,
                 process, msgId, pending, pc, api, callId, chunks, ret, got, taken,
                 preamble, wire, proxyVars, pipeVars, hookVars>>

OtherMethods ==
  {<<"_kiro.dev", "metadata">>, <<"_kiro.dev", "">>, <<"_kiro.dev">>,
   <<"session", "cancel">>, <<>>}

NoteSteps ==
  \/ \E a \in Apis : Send(a)
  \/ Register
  \/ Get
  \/ Timeout
  \/ Pop
  \/ \E body \in Bodies : nread < MaxNoteLines /\ InResponse(body)
  \/ \E m \in OtherMethods : nread < MaxNoteLines /\ InOther(m)

NextN == NoteSteps \/ ReadEof \/ AgentExit \/ BcStep

\* a started session whose agent sends responses and other notifications
SpecNotes == InitC /\ [][NextN]_vars

\* the methods that carry the internal-metadata prefix
Metadata == {"_kiro.dev/metadata", "_kiro.dev/"}

\* C23: a notification of a method outside the session-update family
\* changes no queue; with the prefix _kiro.dev/ it leaves the notification
\* sink as it is, and otherwise it is appended to the sink exactly once.
C23_OtherNotifications ==
  [][\A m \in OtherMethods :
       InOther(m) =>
         /\ pending' = pending /\ got' = got
         /\ notifications' = IF Joined(m) \in Metadata THEN notifications
                             ELSE Append(notifications, [method |-> Joined(m)])]_vars

\* a session/cancel notification is in the sink, a call is pending with an
\* empty queue, and a second line has been read
C23_Witness ==
  /\ notifications = <<[method |-> "session/cancel"]>>
  /\ nread = 2
  /\ pc = "wait" /\ pending[callId] = <<>>

\* ------------------------------------------------------------ request ids

\* the ids of the prompts written so far
PromptIds == {wire[i].id : i \in (Len(StartWire) + 1)..Len(wire)}

\* the prompts whose call has ended and whose id has been removed
Removed == {id \in PromptIds : id \notin DOMAIN pending /\ (id # callId \/ pc = "idle")}

\* C24: the ids of the requests written grow strictly, so no two requests
\* share one; an id whose call has ended and been removed is never in the
\* table again, and only a call that is waiting on its registered queue is
\* handed a value.
C24_IdsNeverReused ==
  /\ [](\A i, j \in 1..Len(wire) : i < j => wire[i].id < wire[j].id)
  /\ [][/\ msgId' >= msgId
        /\ \A id \in Removed : id \notin DOMAIN pending' /\ id \in Removed'
        /\ taken' > taken => pc = "wait" /\ callId \in DOMAIN pending]_vars

\* the first prompt has ended and been removed, and the second one, under
\* the next id, has been handed a value from its own queue
C24_Witness ==
  /\ Removed = {StartIds + 1}
  /\ callId = StartIds + 2 /\ callId \in DOMAIN pending
  /\ taken >= 1

\* the reader thread is in the middle of a read of the table: between the
\* copy of the keys and the lookup, or inside the shutdown iteration
ReaderInTable == readerPc \in {"route", "bcast"}

\* C25: the keys of the pending-call table do not change while the reader
\* thread is in the middle of a lookup or an iteration over it.
C25_TableAccessExclusive ==
  [][ReaderInTable => DOMAIN pending' = DOMAIN pending]_vars

\* ------------------------------------------------- the agent's stdout pipe
\* The agent writes whole lines whenever it likes; read(1) hands them to the
\* reader loop in the order written. `during` is history: the reader loop
\* was inside wait_for_exit when the line was written.

PipeLines ==
  {[k |-> "wait", arg |-> 1], [k |-> "kill", arg |-> 1], [k |-> "release", arg |-> 2],
   [k |-> "note", arg |-> <<"a">>], [k |-> "note", arg |-> <<"b">>]}

AgentWrite(l) ==
  /\ procAlive
  /\ Len(sent) < MaxSent
  /\ sent' = Append(sent, [line |-> l, during |-> readerPc = "wait_exit"])
  /\ UNCHANGED <<termVars, readerVars, callVars, proxyVars, hookVars>>

\* the loop reads the next line of the pipe and dispatches it
ReadSent ==
  /\ nread < Len(sent)
  /\ LET l == sent[nread + 1].line IN
     \/ l.k = "wait" /\ InWait(l.arg)
     \/ l.k = "kill" /\ InKill(l.arg)
     \/ l.k = "release" /\ InRelease(l.arg)
     \/ l.k = "note" /\ InOther(l.arg)

\* read(1) returns b"" when the agent is gone and the pipe is empty
PipeEof == nread = Len(sent) /\ ReadEof

PipeSteps ==
  \/ \E l \in PipeLines : AgentWrite(l)
  \/ ReadSent
  \/ WaitExited
  \/ WaitTimeout
  \/ \E c \in {0, 1} : CmdExit(1, c)
  \/ AgentExit

NextPipe == PipeSteps \/ PipeEof \/ BcStep

\* the reader loop on a pipe the agent fills at its own pace
SpecPipe == InitOps /\ [][NextPipe]_vars

RECURSIVE NotesOf(_)
\* the notifications among the lines, in order
NotesOf(ls) ==
  IF ls = <<>> THEN <<>>
  ELSE (IF Head(ls).line.k = "note" THEN <<Note(Head(ls).line.arg)>> ELSE <<>>)
         \o NotesOf(Tail(ls))

\* C26: while terminal/wait_for_exit is served no line is dispatched; the
\* lines are dispatched in the order they were written; and when the reader
\* loop has ended, every line written during a wait has been dispatched.
C26_WaitBlocksDispatch ==
  /\ [][readerPc = "wait_exit"
          => (nread' = nread /\ notifications' = notifications
                /\ registry' = registry)]_vars
  /\ [](notifications = NotesOf(SubSeq(sent, 1, nread)))
  /\ [](readerPc \in {"bcast", "done"}
          => \A k \in 1..Len(sent) : sent[k].during => k <= nread)

\* ------------------------------------------- updates during the handshake

\* the turn of an update the agent sends for no prompt
Unasked == -1

\* a session update that belongs to no prompt (the agent announcing its
\* commands or its mode after session/new, say)
InStray(u) ==
  /\ UNCHANGED agentEnded
  /\ UpdateLine(u, Unasked)

\* an announcement and a turn end
StrayUpdates == {[upd |-> ToolCall, said |-> ""], [upd |-> TurnEndNew, said |-> ""]}

StrayEnv == \E u \in StrayUpdates : nread < MaxStrayLines /\ InStray(u)

NextStray == NextS \/ StrayEnv

\* start() against an agent that also sends updates of its own accord
SpecStray == InitS /\ [][NextStray]_vars

\* C27: what a handshake request takes off its queue, and so returns to
\* start(), is never made from a session-update notification.
C27_HandshakeOwnResponse ==
  (api \in Handshake /\ pc \in {"hs_reg", "hs_send", "hs_wait", "failed", "pre_send", "idle"})
    => \A i \in 1..taken : got[i].turn # Unasked

\* ---------------------------------------------- content the code trips on

\* JSON values that are not objects
NotObjects == {"list", "string", "number", "null"}

\* _dispatch(msg) on such a value: `"id" in msg` raises TypeError for a
\* number or null; it is False for a list or a string without "id", and then
\* msg.get raises AttributeError
NotObjectError(v) == IF v \in {"number", "null"} THEN "TypeError" ELSE "AttributeError"

\* a line that decodes to a value that is not an object
InNotObject(v) ==
  /\ ReadPre
  /\ Book
  /\ EndLoop(NotObjectError(v))
  /\ NoReply
  /\ UNCHANGED <<termVars, callVars, proxyVars, pipeVars, hookVars, procAlive, cur, agentOpts,
                 agentIn, agentEnded>>

\* `options` that is no list of dicts: null, a number, a list of strings
BadOptions == {"null", "number", "list_of_str"}

\* `for opt in options` raises TypeError for null or a number; opt.get
\* raises AttributeError for an element that is a string
OptionsError(o) == IF o \in {"null", "number"} THEN "TypeError" ELSE "AttributeError"

\* session/request_permission with such options: no reply is written
InPermissionBad(o) ==
  /\ ReadPre
  /\ Book
  /\ Unanswered(ReqId)
  /\ EndLoop(OptionsError(o))
  /\ UNCHANGED <<termVars, callVars, proxyVars, pipeVars, hookVars, procAlive, cur, agentOpts,
                 agentIn, agentEnded>>

ContentSteps ==
  \/ \E v \in NotObjects : InNotObject(v)
  \/ \E spawn \in BOOLEAN : InCreate(0, spawn)
  \/ InCreateRegister
  \/ \E options \in PermSamples : InPermission(options)
  \/ \E o \in BadOptions : InPermissionBad(o)
  \/ \E m \in OtherMethods : InOther(m)
  \/ InUnknown

NextContent == ContentSteps \/ AgentExit \/ ReadEof \/ BcStep

\* the reader thread under lines of every content
SpecContent == InitT /\ [][NextContent]_vars

\* C28: the reader loop ends only because the agent exited or its stdout
\* reached EOF, never because of what a decoded line holds.
C28_ContentKeepsLoop == readerExit \in {"", "poll", "eof"}

\* ------------------------------------- completions for one conversation

NextChat ==
  \/ \E stream \in BOOLEAN : Arrive(stream)
  \/ \E h \in 1..MaxChats : HKillOld(h)
  \/ \E h \in 1..MaxChats : HSpawn(h)
  \/ \E h \in 1..MaxChats : HRegister(h)
  \/ \E h \in 1..MaxChats : HEof(h)
  \/ \E h \in 1..MaxChats : HAbandon(h)
  \/ \E p \in 1..MaxChats : KiroExit(p)

\* the proxy under /v1/chat/completions requests for one conversation
SpecChat == InitX /\ [][NextChat]_vars

\* the processes that are alive
Alive == {p \in 1..Len(kiro) : kiro[p].running}

\* the processes whose request has stored them in the table
Stored == {chats[h].proc : h \in {g \in 1..Len(chats) : chats[g].pc \in {"run", "done"}}}

\* C29: at most one kiro-cli process of the conversation is alive; an alive
\* process that its request has stored is the one the table holds; and the
\* cleanup of a request neither kills a process of another request nor
\* removes the table entry of one.
C29_OneProcessPerConversation ==
  /\ [](Cardinality(Alive) <= 1)
  /\ [](\A p \in Alive \cap Stored : active = Some(p))
  /\ [][\A h \in 1..Len(chats) :
          (chats[h].pc = "run" /\ chats'[h].pc = "done")
            => /\ \A p \in Alive \ {chats[h].proc} : kiro'[p].running
               /\ active # Some(chats[h].proc) => active' = active]_vars

\* ------------------------------------------------ Linear webhook receiver
\* One agent session id. HTTPServer handles one request at a time; the run
\* threads go on beside it.

restVars == <<termVars, readerVars, callVars, proxyVars, pipeVars>>

\* spawn_kiro: _sessions[session_id] = t; t.start()
SpawnKiro ==
  /\ runs' = Append(runs, TRUE)
  /\ sessions' = Some(Len(runs) + 1)

\* the event is taken in
Logged(action) == Len(events) < MaxEvents /\ events' = Append(events, action)

\* action == "created"
Created ==
  /\ Logged("created")
  /\ SpawnKiro
  /\ UNCHANGED restVars

\* action == "prompted": a thought is sent when the id is in the table, a
\* run is spawned when it is not
Prompted ==
  /\ Logged("prompted")
  /\ IF sessions # None THEN UNCHANGED <<sessions, runs>> ELSE SpawnKiro
  /\ UNCHANGED restVars

\* action == "stopped": _sessions.pop(sid, None)
Stopped ==
  /\ Logged("stopped")
  /\ sessions' = None
  /\ UNCHANGED <<runs, restVars>>

\* _run comes to its finally, _sessions.pop(session_id, None), and ends
RunEnd(r) ==
  /\ r \in 1..Len(runs) /\ runs[r]
  /\ runs' = [runs EXCEPT ![r] = FALSE]
  /\ sessions' = None
  /\ UNCHANGED <<events, restVars>>

NextHook == Created \/ Prompted \/ Stopped \/ \E r \in 1..MaxEvents : RunEnd(r)

\* the receiver under the events of one agent session
SpecHook == InitT /\ [][NextHook]_vars

\* the run threads that are alive
Running == {r \in 1..Len(runs) : runs[r]}

\* GET /health: len(_sessions)
ActiveSessions == IF sessions = None THEN 0 ELSE 1

\* C30: at most one run thread of the session is alive; the id is in the
\* session table exactly while a run is alive, so /health counts the runs;
\* and the end of a run does not remove the entry of a newer run.
C30_OneRunPerSession ==
  /\ [](Cardinality(Running) <= 1)
  /\ [](sessions # None <=> Running # {})
  /\ [](ActiveSessions = Cardinality(Running))
  /\ [][\A r \in Running :
          (~runs'[r] /\ sessions # Some(r)) => sessions' = sessions]_vars

====
